---- MODULE Spec2Model ----
(***************************************************************************)
(* Model of the store service (src/store/main.py): the WebSocket           *)
(* subscription registry, the broadcast coroutine send_data_to_subscribers *)
(* and the CRUD handlers over the processed_agent_data table.              *)
(*                                                                         *)
(* The handlers are modelled at the level of their function bodies, each   *)
(* run with a working Session db.  Floats are modelled by small integers.  *)
(***************************************************************************)
EXTENDS Integers, Sequences, FiniteSets, TLC

VARIABLES subscriptions, conn, peerAlive, bc, wire,
          table, nextId, ingest, resp, submitted, deleted, request

vars == <<subscriptions, conn, peerAlive, bc, wire,
          table, nextId, ingest, resp, submitted, deleted, request>>

regVars == <<subscriptions, conn, peerAlive, bc, wire>>

storeVars == <<table, nextId, ingest, resp, submitted, deleted, request>>

(***************************************************************************)
(* Bounds                                                                  *)
(***************************************************************************)
MaxChan == 2

MaxId == 3

MaxBatch == 2

Chan == 1..MaxChan

Ids == 1..MaxId

Users == {1, 7}

(***************************************************************************)
(* Data model                                                              *)
(***************************************************************************)
\* A datetime value: wall-clock reading plus whether it carries tzinfo.
NaiveTs == [wall |-> 0, aware |-> FALSE]

AwareTs == [wall |-> 1, aware |-> TRUE]

\* ProcessedAgentData instances (road_state + nested AgentData).
Rec7 ==
  [road_state |-> "pothole",
   agent_data |-> [user_id |-> 7,
                   accelerometer |-> [x |-> 1, y |-> 2, z |-> 3],
                   gps |-> [latitude |-> 10, longitude |-> 20],
                   timestamp |-> NaiveTs]]

Rec1 ==
  [road_state |-> "normal",
   agent_data |-> [user_id |-> 1,
                   accelerometer |-> [x |-> 3, y |-> 1, z |-> 2],
                   gps |-> [latitude |-> 20, longitude |-> 10],
                   timestamp |-> AwareTs]]

Records == {Rec7, Rec1}

\* Column("timestamp", DateTime): a DateTime column without timezone keeps
\* the wall-clock reading and drops the tzinfo of the value written to it.
DateTimeColumn(ts) == [wall |-> ts.wall, aware |-> FALSE]

\* The values(...) clause of the insert and of the update statement.
Values(item) ==
  [road_state |-> item.road_state,
   user_id    |-> item.agent_data.user_id,
   x          |-> item.agent_data.accelerometer.x,
   y          |-> item.agent_data.accelerometer.y,
   z          |-> item.agent_data.accelerometer.z,
   latitude   |-> item.agent_data.gps.latitude,
   longitude  |-> item.agent_data.gps.longitude,
   timestamp  |-> item.agent_data.timestamp]

\* The row of processed_agent_data that a values(...) clause produces.
Row(id, v) ==
  [id |-> id, road_state |-> v.road_state, user_id |-> v.user_id,
   x |-> v.x, y |-> v.y, z |-> v.z,
   latitude |-> v.latitude, longitude |-> v.longitude,
   timestamp |-> DateTimeColumn(v.timestamp)]

\* Payloads handed to send_data_to_subscribers by a direct caller.
Payloads == {Row(1, Values(Rec7))}

\* json.dumps(data)
JsonDumps(data) == [json |-> data]

\* websocket.send_json(x) puts the JSON text of x on the wire.
SendJson(x) == [json |-> x]

\* What one iteration of the broadcast loop transmits for data.
Message(data) == SendJson(JsonDumps(data))

(***************************************************************************)
(* Subscription registry and the WebSocket endpoint                        *)
(***************************************************************************)
Bucket(u) == IF u \in DOMAIN subscriptions THEN subscriptions[u] ELSE {}

\* if user_id not in subscriptions: subscriptions[user_id] = set()
\* subscriptions[user_id].add(websocket)
Subscribe(subs, u, c) ==
  [k \in DOMAIN subs \cup {u} |->
     IF k = u THEN (IF u \in DOMAIN subs THEN subs[u] ELSE {}) \cup {c}
     ELSE subs[k]]

\* subscriptions[user_id].remove(websocket)
Unsubscribe(subs, u, c) == [subs EXCEPT ![u] = @ \ {c}]

\* The set object a suspended broadcast is iterating was mutated.
MarkDirty(b, u) ==
  IF b.state = "iterating" /\ b.user = u THEN [b EXCEPT !.dirty = TRUE] ELSE b

\* await websocket.accept(); register the connection under user_id.
Accept(c, u) ==
  /\ conn[c].state = "Connecting"
  /\ conn' = [conn EXCEPT ![c] = [state |-> "Open", user |-> u]]
  /\ subscriptions' = Subscribe(subscriptions, u, c)
  /\ bc' = MarkDirty(bc, u)
  /\ UNCHANGED <<peerAlive, wire>>

\* The client goes away; the endpoint is still suspended in receive_text().
PeerDrop(c) ==
  /\ conn[c].state = "Open"
  /\ peerAlive[c]
  /\ peerAlive' = [peerAlive EXCEPT ![c] = FALSE]
  /\ UNCHANGED <<subscriptions, conn, bc, wire>>

\* receive_text() raises WebSocketDisconnect; the handler removes the socket.
Disconnect(c) ==
  /\ conn[c].state = "Open"
  /\ ~peerAlive[c]
  /\ subscriptions' = Unsubscribe(subscriptions, conn[c].user, c)
  /\ conn' = [conn EXCEPT ![c].state = "Closed"]
  /\ bc' = MarkDirty(bc, conn[c].user)
  /\ UNCHANGED <<peerAlive, wire>>

\* receive_text() raises something other than WebSocketDisconnect (a binary
\* frame makes it raise KeyError, a shutdown cancels the task): the except
\* clause does not match, the endpoint ends and the connection is closed
\* with the socket still in its bucket.
ReceiveRaises(c) ==
  /\ conn[c].state = "Open"
  /\ peerAlive[c]
  /\ conn' = [conn EXCEPT ![c].state = "Closed"]
  /\ peerAlive' = [peerAlive EXCEPT ![c] = FALSE]
  /\ UNCHANGED <<subscriptions, bc, wire>>

(***************************************************************************)
(* send_data_to_subscribers: a coroutine that iterates the live set object *)
(* and suspends at every awaited send.                                     *)
(***************************************************************************)
\* send_json succeeds on a connected socket and raises on a dead one.
SendOk(c) == conn[c].state = "Open" /\ peerAlive[c]

\* The set iterator created by "for websocket in subscriptions[user_id]".
NewIter(u, data) ==
  [state |-> "iterating", user |-> u, data |-> data,
   used |-> Cardinality(subscriptions[u]), start |-> subscriptions[u],
   seen |-> {}, dirty |-> FALSE, sent |-> <<>>, error |-> "none"]

\* Variant: the loop walks a stale copy of the table once it was mutated.
IterCandidatesStale(b, bucket) == IF b.dirty THEN b.start ELSE bucket \ b.seen

\* Elements the iterator can yield next.  It reads the live hash table: an
\* untouched table yields each element once; a table that was mutated (and
\* possibly rehashed) since may yield any element it currently holds.
IterCandidates(b, bucket) == IF b.dirty THEN bucket ELSE bucket \ b.seen

\* The iterator may report exhaustion: always when nothing is left, and at
\* any point once the table was mutated (entries may sit behind the cursor).
IterMayStop(b, bucket) == b.dirty \/ IterCandidates(b, bucket) = {}

\* The size check of the set iterator: "Set changed size during iteration".
SizeChanged(b, bucket) == Cardinality(bucket) # b.used

\* One turn of the loop, from next() up to the suspension in send_json.
\* sent lists the sockets send_json was called on; wire[c] holds what was
\* handed to send_json for c.
LoopTurn(b) ==
  LET bucket == subscriptions[b.user] IN
  IF SizeChanged(b, bucket)
  THEN /\ bc' = [b EXCEPT !.state = "raised", !.error = "RuntimeError"]
       /\ wire' = wire
  ELSE \/ /\ IterMayStop(b, bucket)
          /\ bc' = [b EXCEPT !.state = "returned"]
          /\ wire' = wire
       \/ \E c \in IterCandidates(b, bucket) :
            /\ Len(b.sent) < 2 * b.used
            /\ wire' = [wire EXCEPT ![c] = @ \cup {Message(b.data)}]
            /\ bc' = IF SendOk(c)
                     THEN [b EXCEPT !.seen = @ \cup {c}, !.sent = Append(@, c)]
                     ELSE [b EXCEPT !.seen = @ \cup {c}, !.sent = Append(@, c),
                                    !.state = "raised", !.error = "SendError"]

\* The sockets a broadcast got its payload through to.
Delivered(b) ==
  {b.sent[i] : i \in 1..(IF b.error = "SendError" THEN Len(b.sent) - 1
                         ELSE Len(b.sent))}

\* A caller awaits send_data_to_subscribers(user_id, data).
BroadcastCall(u, data) ==
  /\ bc.state = "idle"
  /\ IF u \in DOMAIN subscriptions
     THEN LoopTurn(NewIter(u, data))
     ELSE /\ bc' = [state |-> "returned", user |-> u, data |-> data,
                    used |-> 0, start |-> {}, seen |-> {}, dirty |-> FALSE,
                    sent |-> <<>>, error |-> "none"]
          /\ wire' = wire
  /\ UNCHANGED <<subscriptions, conn, peerAlive>>

\* The event loop resumes the coroutine after an awaited send.
BroadcastResume ==
  /\ bc.state = "iterating"
  /\ LoopTurn(bc)
  /\ UNCHANGED <<subscriptions, conn, peerAlive>>

\* The caller observes the return or the exception.
BroadcastDone ==
  /\ bc.state \in {"returned", "raised"}
  /\ bc' = [state |-> "idle"]
  /\ UNCHANGED <<subscriptions, conn, peerAlive, wire>>

(***************************************************************************)
(* Store gateway: the handlers over processed_agent_data, each run with a  *)
(* Session db, which is what the db_session decorator is there to supply.  *)
(* table is the committed content of the table; a handler that raises      *)
(* HTTPException(404) answers status 404, one that returns answers 200.    *)
(***************************************************************************)
\* db.execute(insert(...).values(...)): the pending row gets the next id.
InsertRow(t, id, item) ==
  [i \in DOMAIN t \cup {id} |-> IF i = id THEN Row(id, Values(item)) ELSE t[i]]

\* db.execute(select(...).where(id == x)).first(): the row, or None ({}).
SelectFirst(t, id) == IF id \in DOMAIN t THEN {t[id]} ELSE {}

\* Variant: the update statement lacks its where clause.
UpdateWithoutWhere(t, id, data) == [i \in DOMAIN t |-> Row(id, Values(data))]

\* db.execute(update(...).where(id == x).values(...))
UpdateWhere(t, id, data) ==
  [i \in DOMAIN t |-> IF i = id THEN Row(id, Values(data)) ELSE t[i]]

\* Variant: the delete statement lacks its where clause.
DeleteWithoutWhere(t, id) == [i \in {} |-> t[i]]

\* db.execute(delete(...).where(id == x))
DeleteWhere(t, id) == [i \in DOMAIN t \ {id} |-> t[i]]

\* "if not result": the result object of execute() defines neither __bool__
\* nor __len__, so it is truthy whatever the number of rows matched.
NotResult(rowcount) == FALSE

\* Variant: the failed statement had already been made durable.
RollbackKeepsPending(committed, pending) == pending

\* db.rollback() in the except clause: only the failed item's transaction
\* is undone; what earlier items committed stays.
Rollback(committed, pending) == committed

\* send_data_to_subscribers(user_id, result) without await: the call builds
\* a coroutine object that is dropped; its body never runs, nothing is sent.
UnawaitedSend(w, u, data) == w

\* The call after the except clause re-raised.
Raised(ing) == [ing EXCEPT !.state = "error"]

\* The call after an item went through; it returns after the last one.
Advanced(ing, id) ==
  [ing EXCEPT !.idx = @ + 1, !.ids = Append(@, id),
              !.state = IF ing.idx = Len(ing.batch) THEN "ok" ELSE "running"]

Batches == UNION {[1..n -> Records] : n \in 0..MaxBatch}

\* create_processed_agent_data(data) is entered.
CreateCall(data) ==
  /\ ingest.state = "idle"
  /\ nextId + Len(data) - 1 <= MaxId
  /\ ingest' = [state |-> IF Len(data) = 0 THEN "ok" ELSE "running",
                batch |-> data, idx |-> 1, ids |-> <<>>, attempts |-> 0,
                live |-> <<>>]
  /\ UNCHANGED <<table, nextId, resp, submitted, deleted, regVars>>

\* One turn of "for item in data": insert, commit, call the broadcast; or
\* the insert (or its commit) fails, the transaction is rolled back and the
\* exception is raised again.
CreateItem ==
  /\ ingest.state = "running"
  /\ LET item    == ingest.batch[ingest.idx]
         pending == InsertRow(table, nextId, item)
         ing     == [ingest EXCEPT !.attempts = @ + 1]
     IN  \/ /\ table' = pending
            /\ nextId' = nextId + 1
            /\ wire' = UnawaitedSend(wire, item.agent_data.user_id,
                                     Row(nextId, Values(item)))
            /\ ingest' = [Advanced(ing, nextId) EXCEPT
                            !.live = Append(@,
                              [all  |-> Bucket(item.agent_data.user_id),
                               dead |-> {c \in Bucket(item.agent_data.user_id) :
                                           ~SendOk(c)}])]
            /\ submitted' = [i \in DOMAIN submitted \cup {nextId} |->
                               IF i = nextId THEN item ELSE submitted[i]]
         \/ /\ table' = Rollback(table, pending)
            /\ ingest' = Raised(ing)
            /\ UNCHANGED <<nextId, wire, submitted>>
  /\ UNCHANGED <<resp, deleted, request, subscriptions, conn, peerAlive, bc>>

\* The caller of create_processed_agent_data observes return or exception.
CreateDone ==
  /\ ingest.state \in {"ok", "error"}
  /\ ingest' = [state |-> "idle"]
  /\ request' = [state |-> "none"]
  /\ UNCHANGED <<table, nextId, resp, submitted, deleted, regVars>>

(***************************************************************************)
(* The POST route: the request body is validated against the declared      *)
(* List[ProcessedAgentData] before create_processed_agent_data is called.  *)
(***************************************************************************)
\* JSON values of a request body; a field that is absent is the empty set.
Num(n) == [num |-> n]

Str(s) == [str |-> s]

IsoText(ts) ==
  IF ts.aware THEN "2024-06-01T00:00:00Z" ELSE "2024-06-01T00:00:00"

\* The JSON object a client sends for a record.
Json(rec) ==
  [road_state |-> {Str(rec.road_state)},
   agent_data |-> [user_id |-> {Num(rec.agent_data.user_id)},
                   accelerometer |-> rec.agent_data.accelerometer,
                   gps |-> rec.agent_data.gps,
                   timestamp |-> {Str(IsoText(rec.agent_data.timestamp))}]]

\* Malformed bodies: a text that is no timestamp, a missing required field,
\* a value of the wrong type, and a reading without user_id.
BadTimestamp == [Json(Rec7) EXCEPT !.agent_data.timestamp = {Str("not-a-date")}]

MissingRoadState == [Json(Rec7) EXCEPT !.road_state = {}]

WrongTypeUser == [Json(Rec7) EXCEPT !.agent_data.user_id = {Str("seven")}]

NoUserId == [Json(Rec1) EXCEPT !.agent_data.user_id = {}]

JsonItems ==
  {Json(r) : r \in Records}
    \cup {BadTimestamp, MissingRoadState, WrongTypeUser, NoUserId}

Bodies == UNION {[1..n -> JsonItems] : n \in 0..MaxBatch}

\* timestamp: datetime -- an ISO-8601 text parses, any other text does not.
ParseTimestamp(v) ==
  IF v = {Str("2024-06-01T00:00:00")} THEN {NaiveTs}
  ELSE IF v = {Str("2024-06-01T00:00:00Z")} THEN {AwareTs}
  ELSE {}

\* road_state: str -- required.
ParseRoadState(v) ==
  {s \in {"pothole", "normal"} : v = {Str(s)}}

\* user_id: int -- required by the store's AgentData, no default.
ParseUserId(v) == {u \in Users : v = {Num(u)}}

\* Validation of one item against ProcessedAgentData: the record, or none.
ValidateItem(j) ==
  {[road_state |-> s,
    agent_data |-> [user_id |-> u,
                    accelerometer |-> j.agent_data.accelerometer,
                    gps |-> j.agent_data.gps,
                    timestamp |-> t]] :
     s \in ParseRoadState(j.road_state),
     u \in ParseUserId(j.agent_data.user_id),
     t \in ParseTimestamp(j.agent_data.timestamp)}

\* The edge's AgentData declares user_id: Optional[int] = 1.
EdgeUserId(v) == IF v = {} THEN 1 ELSE CHOOSE u \in Users : v = {Num(u)}

\* Variant: only the first item of the body is validated.
AcceptedByFirstItem(body) == Len(body) = 0 \/ ValidateItem(body[1]) # {}

\* The body is a valid List[ProcessedAgentData]: every item validates.
Accepted(body) == \A i \in 1..Len(body) : ValidateItem(body[i]) # {}

\* The list of records the handler is called with.
Parsed(body) ==
  [i \in 1..Len(body) |-> CHOOSE r \in Records : ValidateItem(body[i]) \subseteq {r}]

\* What the request carried: its length, the items that do not validate,
\* and those among them that lack nothing but the user_id.
Summary(body, st) ==
  [state   |-> st,
   n       |-> Len(body),
   invalid |-> {i \in 1..Len(body) : ValidateItem(body[i]) = {}},
   nouser  |-> {i \in 1..Len(body) : body[i] = NoUserId}]

\* create_processed_agent_data_route(data): a body that fails validation is
\* answered 422 by the framework and the handler is not called.
PostRoute(body) ==
  /\ request.state = "none"
  /\ IF Accepted(body)
     THEN /\ CreateCall(Parsed(body))
          /\ request' = Summary(body, "accepted")
     ELSE /\ request' = Summary(body, "rejected")
          /\ UNCHANGED <<table, nextId, ingest, resp, submitted, deleted,
                         regVars>>

\* The client has taken the 422 response.
PostRejected ==
  /\ request.state = "rejected"
  /\ request' = [state |-> "none"]
  /\ UNCHANGED <<table, nextId, ingest, resp, submitted, deleted, regVars>>

\* read_processed_agent_data(id)
Read(id) ==
  /\ resp.op = "none"
  /\ LET result == SelectFirst(table, id)
     IN  resp' = IF result = {}
                 THEN [op |-> "read", id |-> id, status |-> 404, body |-> {}]
                 ELSE [op |-> "read", id |-> id, status |-> 200, body |-> result]
  /\ UNCHANGED <<table, nextId, ingest, submitted, deleted, request, regVars>>

\* update_processed_agent_data(id, data); the function returns None.
Update(id, data) ==
  /\ resp.op = "none"
  /\ LET rowcount == Cardinality(SelectFirst(table, id))
     IN  IF NotResult(rowcount)
         THEN /\ resp' = [op |-> "update", id |-> id, status |-> 404, body |-> {}]
              /\ UNCHANGED <<table, submitted>>
         ELSE /\ table' = UpdateWhere(table, id, data)
              /\ resp' = [op |-> "update", id |-> id, status |-> 200,
                          body |-> {}, arg |-> data]
              /\ submitted' = [i \in DOMAIN submitted \ {id} |-> submitted[i]]
  /\ UNCHANGED <<nextId, ingest, deleted, request, regVars>>

\* delete_processed_agent_data(id); returns what the select had found.
Delete(id) ==
  /\ resp.op = "none"
  /\ LET obj_to_delete == SelectFirst(table, id)
         rowcount      == Cardinality(obj_to_delete)
     IN  IF NotResult(rowcount)
         THEN /\ resp' = [op |-> "delete", id |-> id, status |-> 404, body |-> {}]
              /\ UNCHANGED <<table, submitted, deleted>>
         ELSE /\ table' = DeleteWhere(table, id)
              /\ resp' = [op |-> "delete", id |-> id, status |-> 200,
                          body |-> obj_to_delete]
              /\ submitted' = [i \in DOMAIN submitted \ {id} |-> submitted[i]]
              /\ deleted' = IF obj_to_delete = {} THEN deleted
                            ELSE deleted \cup {id}
  /\ UNCHANGED <<nextId, ingest, request, regVars>>

\* The caller of read/update/delete has taken the response.
Responded ==
  /\ resp.op # "none"
  /\ resp' = [op |-> "none"]
  /\ UNCHANGED <<table, nextId, ingest, submitted, deleted, request, regVars>>

(***************************************************************************)
(* Initial state and specifications                                        *)
(***************************************************************************)
Init ==
  /\ subscriptions = [u \in {} |-> {}]
  /\ conn = [c \in Chan |-> [state |-> "Connecting"]]
  /\ peerAlive = [c \in Chan |-> TRUE]
  /\ bc = [state |-> "idle"]
  /\ wire = [c \in Chan |-> {}]
  /\ table = [i \in {} |-> {}]
  /\ nextId = 1
  /\ ingest = [state |-> "idle"]
  /\ resp = [op |-> "none"]
  /\ submitted = [i \in {} |-> {}]
  /\ deleted = {}
  /\ request = [state |-> "none"]

EndpointNext ==
  \/ \E c \in Chan, u \in Users : Accept(c, u)
  \/ \E c \in Chan : PeerDrop(c)
  \/ \E c \in Chan : Disconnect(c)
  \/ \E c \in Chan : ReceiveRaises(c)

StoreNext ==
  \/ \E body \in Bodies : PostRoute(body)
  \/ PostRejected
  \/ CreateItem
  \/ CreateDone
  \/ \E id \in Ids : Read(id)
  \/ \E id \in Ids, data \in Records : Update(id, data)
  \/ \E id \in Ids : Delete(id)
  \/ Responded

\* The registry with send_data_to_subscribers awaited by a caller.
NextRegistry ==
  \/ EndpointNext /\ UNCHANGED storeVars
  \/ (\E u \in Users, d \in Payloads : BroadcastCall(u, d)) /\ UNCHANGED storeVars
  \/ BroadcastResume /\ UNCHANGED storeVars
  \/ BroadcastDone /\ UNCHANGED storeVars

RegistrySpec == Init /\ [][NextRegistry]_vars

\* The store gateway alone.
StoreSpec == Init /\ [][StoreNext]_vars

\* The service: the WebSocket endpoint and the handlers.
Next ==
  \/ EndpointNext /\ UNCHANGED storeVars
  \/ StoreNext

Spec == Init /\ [][Next]_vars

\* Ingestion beside the WebSocket endpoint: POST requests and subscribers.
IngestNext ==
  \/ EndpointNext /\ UNCHANGED storeVars
  \/ \E body \in Bodies : PostRoute(body)
  \/ PostRejected
  \/ CreateItem
  \/ CreateDone

IngestSpec == Init /\ [][IngestNext]_vars

(***************************************************************************)
(* Properties of the registry (checked under RegistrySpec)                 *)
(***************************************************************************)
BroadcastOver == bc.state \in {"returned", "raised"}

\* C1: a broadcast to user U delivers the payload to exactly the channels
\* of U's bucket at the time of the call.  Stated for a finished broadcast
\* and, on the "every channel" side, for the channels that are still
\* registered and connected, which are the ones that can receive at all.
C1_DeliversToBucket ==
  BroadcastOver =>
    \A c \in Chan :
      /\ c \in Delivered(bc) => c \in bc.start
      /\ (c \in bc.start /\ c \in Bucket(bc.user) /\ SendOk(c))
            => c \in Delivered(bc)

\* C2: once the removal of a channel from the registry has completed (its
\* endpoint is Closed and its bucket no longer holds it), no step of a
\* broadcast calls send on that channel, also when the broadcast was
\* suspended between two sends at that moment.
C2_NoSendAfterUnsubscribe ==
  [][\A c \in Chan :
       (conn[c].state = "Closed" /\ c \notin Bucket(conn[c].user)
          /\ bc'.state # "idle")
         => LET before == IF bc.state = "idle" THEN 0 ELSE Len(bc.sent)
            IN  \A i \in (before + 1)..Len(bc'.sent) : bc'.sent[i] # c]_vars

\* C2 witness: a broadcast that started over a bucket holding a channel
\* which was then unsubscribed, and that went on to send afterwards.
C2_Witness ==
  /\ bc.state # "idle"
  /\ \E c \in bc.start : conn[c].state = "Closed"
  /\ \E i \in 1..Len(bc.sent) : bc.sent[i] \notin bc.start

\* C3: a user's bucket is never added to or removed from while a broadcast
\* is part-way through iterating it.
C3_MutualExclusion == ~(bc.state = "iterating" /\ bc.dirty)

\* C4: when the send to one channel fails, the broadcast call does not
\* raise and every other connected channel of the bucket gets the payload.
C4_BestEffort ==
  (BroadcastOver /\ bc.error = "SendError") =>
    /\ bc.state = "returned"
    /\ \A c \in bc.start :
         (c \in Bucket(bc.user) /\ SendOk(c)) => c \in Delivered(bc)

(***************************************************************************)
(* Properties of ingestion and of the store gateway                        *)
(***************************************************************************)
\* The row the call committed for item i of its batch.
CommittedRow(i) == Row(ingest.ids[i], Values(ingest.batch[i]))

Committed == IF ingest.state = "idle" THEN {} ELSE 1..Len(ingest.ids)

\* C5: every record the ingestion inserted is pushed to each channel that
\* was registered for the record's user_id when it was committed, carrying
\* the stored values.  (Checked under IngestSpec.)
C5_InsertedIsPushed ==
  \A i \in Committed :
    \A c \in ingest.live[i].all : Message(CommittedRow(i)) \in wire[c]

C8_NotFoundForAbsentId ==
  [][(resp.op = "none" /\ resp'.op # "none" /\ resp'.id \notin DOMAIN table)
       => (resp'.status = 404 /\ table' = table)]_vars

C10_InsertReadRoundTrip ==
  [][(resp.op = "none" /\ resp'.op = "read" /\ resp'.id \in DOMAIN submitted)
       => /\ resp'.status = 200
          /\ Cardinality(resp'.body) = 1
          /\ \A row \in resp'.body :
               LET item == submitted[resp'.id] IN
               /\ row.road_state = item.road_state
               /\ row.user_id = item.agent_data.user_id
               /\ row.x = item.agent_data.accelerometer.x
               /\ row.y = item.agent_data.accelerometer.y
               /\ row.z = item.agent_data.accelerometer.z
               /\ row.latitude = item.agent_data.gps.latitude
               /\ row.longitude = item.agent_data.gps.longitude
               /\ row.timestamp = item.agent_data.timestamp]_vars

(***************************************************************************)
(* Properties of the connection lifecycle                                  *)
(***************************************************************************)
\* C11: once a connection has reached Closed, however it ended, its channel
\* handle is in no registry bucket.
C11_ClosedIsUnregistered ==
  \A c \in Chan :
    conn[c].state = "Closed" => \A u \in DOMAIN subscriptions : c \notin subscriptions[u]

(***************************************************************************)
(* Properties of update                                                    *)
(***************************************************************************)
\* C12: update of an existing id overwrites every flattened field of that
\* row with the field of the record, keeps the row's id and leaves every
\* other row as it was.
C12_UpdateOverwritesRow ==
  [][(resp.op = "none" /\ resp'.op = "update" /\ resp'.id \in DOMAIN table)
       => /\ DOMAIN table' = DOMAIN table
          /\ \A i \in DOMAIN table \ {resp'.id} : table'[i] = table[i]
          /\ LET row  == table'[resp'.id]
                 item == resp'.arg
             IN  /\ row.id = resp'.id
                 /\ row.road_state = item.road_state
                 /\ row.user_id = item.agent_data.user_id
                 /\ row.x = item.agent_data.accelerometer.x
                 /\ row.y = item.agent_data.accelerometer.y
                 /\ row.z = item.agent_data.accelerometer.z
                 /\ row.latitude = item.agent_data.gps.latitude
                 /\ row.longitude = item.agent_data.gps.longitude
                 /\ row.timestamp = item.agent_data.timestamp]_vars

\* C13: update of an existing id responds with the updated row, the row
\* of that id carrying the newly written values.
C13_UpdateRespondsWithRow ==
  [][(resp.op = "none" /\ resp'.op = "update" /\ resp'.id \in DOMAIN table)
       => (resp'.status = 200 /\ resp'.body = {table'[resp'.id]})]_vars

(***************************************************************************)
(* Properties of validation                                                *)
(***************************************************************************)
\* C14: a request with an item that fails validation is rejected in the
\* step that receives it, which inserts no row, sends nothing and starts
\* no ingestion; an ingestion only ever runs on a request all of whose
\* items validated.
C14_ValidationPrecedesStorage ==
  [][/\ (request.state = "none" /\ request'.state # "none"
           /\ request'.invalid # {})
        => /\ request'.state = "rejected"
           /\ table' = table /\ nextId' = nextId /\ wire' = wire
           /\ ingest' = ingest /\ bc' = bc
     /\ ingest'.state # "idle"
        => (request'.state = "accepted" /\ request'.invalid = {})]_vars

\* C14 witness: a request whose second item is malformed was rejected while
\* rows of an earlier request are stored.
C14_Witness ==
  /\ request.state = "rejected"
  /\ request.invalid = {2}
  /\ DOMAIN table # {}

\* C15: a reading submitted without a user_id is accepted and handled as
\* user 1: it enters ingestion with user_id 1 (to be stored, and pushed to
\* user 1's bucket, as any record of user 1).
C15_MissingUserIdDefaultsTo1 ==
  [][(request.state = "none" /\ request'.state # "none"
        /\ request'.nouser # {} /\ request'.invalid \subseteq request'.nouser)
       => /\ request'.state = "accepted"
          /\ \A i \in request'.nouser :
               ingest'.batch[i].agent_data.user_id = EdgeUserId({})]_vars

(***************************************************************************)
(* Order of commit and push within one ingestion call                      *)
(***************************************************************************)
\* C16: items are processed in batch order, and the step that commits the
\* row of an item pushes it -- after the commit, before the next item's
\* insert -- to the channels of the user's bucket that can take it; nothing
\* but a committed row is pushed, and a failed insert pushes nothing.
C16_PushFollowsCommit ==
  [][ingest.state = "running" /\ ingest'.state # "idle"
       /\ ingest'.attempts = ingest.attempts + 1
       => LET k   == ingest.idx
              u   == ingest.batch[k].agent_data.user_id
              row == Row(nextId, Values(ingest.batch[k]))
          IN  IF Len(ingest'.ids) = Len(ingest.ids) + 1
              THEN /\ ingest'.attempts = k
                   /\ ingest'.ids = Append(ingest.ids, nextId)
                   /\ \A i \in 1..Len(ingest.ids) : ingest.ids[i] < nextId
                   /\ nextId \in DOMAIN table' /\ table'[nextId] = row
                   /\ \A c \in Chan :
                        wire'[c] \ wire[c] =
                          IF c \in Bucket(u) /\ SendOk(c)
                          THEN {Message(row)} \ wire[c] ELSE {}
                   /\ (Bucket(u) # {} /\ \A c \in Bucket(u) : SendOk(c))
                        => \A c \in Bucket(u) : Message(row) \in wire'[c]
              ELSE /\ wire' = wire
                   /\ table' = table]_vars

(***************************************************************************)
(* Registry integrity                                                      *)
(***************************************************************************)
\* C17: every channel found in a bucket is Open, is in the bucket of the
\* user_id it connected with, and is in no other bucket.
C17_BucketsHoldOpenChannels ==
  \A u \in Users :
    \A c \in Bucket(u) :
      /\ conn[c].state = "Open"
      /\ conn[c].user = u
      /\ \A v \in Users \ {u} : c \notin Bucket(v)

====
